---- MODULE Spec2Model ----
(***************************************************************************)
(* A model of jsarch (src/src/jsarch.js): the extraction of architecture   *)
(* notes from comments, their ordering and their rendering as markdown.    *)
(*                                                                         *)
(* JavaScript strings are TLA+ strings; a character is a string of length  *)
(* one.  Four specifications share the variables:                          *)
(*   Spec         the jsArch pipeline (patterns, reads, sort, render)      *)
(*   SpecCompare  _compareArchitectureNotes on drawn ids                   *)
(*   SpecSort     Array.prototype.sort with _compareArchitectureNotes      *)
(*   SpecParse    ARCHITECTURE_NOTE_REGEXP and visitComment on drawn text  *)
(***************************************************************************)
EXTENDS Integers, Sequences, FiniteSets, TLC

VARIABLES
    pc,           \* position of the jsArch call: "idle", "globbing", "extracting", "settled"
    engine,       \* which Array.prototype.sort the host engine has
    options,      \* the options jsArch was called with
    globOutcome,  \* what the glob service answers for each pattern
    fileContent,  \* what the fs service and the parser answer for each file
    globState,    \* each glob promise: "pending", "ok", "failed"
    files,        \* the linearized resolved file paths
    extract,      \* each _extractArchitectureNotes promise
    reads,        \* the file paths fs.readFileAsync was called with, in call order
    gathered,     \* the values array of the Promise.all over the extractions
    outOfOrder,   \* history: an extraction settled before one of a lower index
    result,       \* the promise jsArch returned
    cmpA, cmpB, cmpC, cmpRes,   \* SpecCompare: three ids and the comparisons
    sortIn, sortOut,            \* SpecSort: the notes before and after the sort
    commentText, parsed         \* SpecParse: a comment's text and what visitComment pushed

pipeVars == <<pc, options, globOutcome, fileContent, globState, files, extract,
              reads, gathered, outOfOrder, result>>
cmpVars == <<cmpA, cmpB, cmpC, cmpRes>>
sortVars == <<sortIn, sortOut>>
parseVars == <<commentText, parsed>>
vars == <<pipeVars, engine, cmpVars, sortVars, parseVars>>

(***************************************************************************)
(* Bounds.                                                                 *)
(***************************************************************************)
MaxDepth == 2      \* components of a drawn id (SpecCompare)
MaxTail == 4       \* characters drawn after the marker's colon (SpecParse)
MaxSort == 5       \* notes in a drawn sort input (SpecSort)
NumPatterns == 2   \* patterns given to jsArch (Spec)

(***************************************************************************)
(* Strings.                                                                *)
(***************************************************************************)
CharAt(s, i) == SubSeq(s, i, i)

Digits == "0123456789"

IsDigit(c) == c \in {CharAt(Digits, i) : i \in 1..10}

\* JavaScript's \s and the characters String.prototype.trim strips
IsSpace(c) == c \in {" ", "\n", "\r", "\t"}

DigitVal(c) == (CHOOSE i \in 1..10 : CharAt(Digits, i) = c) - 1

RECURSIVE ParseIntFrom(_, _, _)
ParseIntFrom(s, i, acc) ==
    IF i > Len(s) \/ ~IsDigit(CharAt(s, i)) THEN acc
    ELSE ParseIntFrom(s, i + 1, acc * 10 + DigitVal(CharAt(s, i)))

\* parseInt(s, 10) of a string that starts with a digit
ParseInt(s) == ParseIntFrom(s, 1, 0)

RECURSIVE NatToStr(_)
NatToStr(n) ==
    IF n < 10 THEN CharAt(Digits, n + 1)
    ELSE NatToStr(n \div 10) \o CharAt(Digits, (n % 10) + 1)

\* the index of the first sep from i on, Len(s) + 1 when there is none
RECURSIVE IndexOf(_, _, _)
IndexOf(s, sep, i) ==
    IF i > Len(s) \/ CharAt(s, i) = sep THEN i ELSE IndexOf(s, sep, i + 1)

\* String.prototype.split with a one-character separator: the pieces
\* between the separators, the empty ones included
RECURSIVE Split(_, _)
Split(s, sep) ==
    LET p == IndexOf(s, sep, 1)
    IN  IF p > Len(s) THEN <<s>>
        ELSE <<SubSeq(s, 1, p - 1)>> \o Split(SubSeq(s, p + 1, Len(s)), sep)

RECURSIVE TrimStart(_)
TrimStart(s) ==
    IF s # "" /\ IsSpace(Head(s)) THEN TrimStart(Tail(s)) ELSE s

RECURSIVE TrimEnd(_)
TrimEnd(s) ==
    IF s # "" /\ IsSpace(CharAt(s, Len(s))) THEN TrimEnd(SubSeq(s, 1, Len(s) - 1))
    ELSE s

\* String.prototype.trim
Trim(s) == TrimEnd(TrimStart(s))

StartsWith(s, p) == Len(s) >= Len(p) /\ SubSeq(s, 1, Len(p)) = p

StartsWithAt(s, i, p) == i + Len(p) - 1 <= Len(s) /\ SubSeq(s, i, i + Len(p) - 1) = p

Range(f) == {f[i] : i \in DOMAIN f}

(***************************************************************************)
(* _linearize: concat every bulk, in order.                                *)
(***************************************************************************)
RECURSIVE LinearizeDedupFrom(_, _, _)
LinearizeDedupFrom(bulks, i, acc) ==
    IF i > Len(bulks) THEN acc
    ELSE LinearizeDedupFrom(bulks, i + 1,
            acc \o SelectSeq(bulks[i], LAMBDA x : x \notin Range(acc)))

\* a _linearize that keeps the first occurrence of each element only
LinearizeDistinct(bulks) == LinearizeDedupFrom(bulks, 1, <<>>)

RECURSIVE LinearizeFrom(_, _, _)
LinearizeFrom(bulks, i, array) ==
    IF i > Len(bulks) THEN array
    ELSE LinearizeFrom(bulks, i + 1, array \o bulks[i])

_linearize(bulks) == LinearizeFrom(bulks, 1, <<>>)

(***************************************************************************)
(* _compareArchitectureNotes.                                              *)
(***************************************************************************)
TitleLevels(num) ==
    LET parts == Split(num, ".") IN [i \in 1..Len(parts) |-> ParseInt(parts[i])]

\* the reducer of lines 240-254; index is 1-based here
CompareStep(curOrder, curALevel, index, bTitleLevels) ==
    IF curOrder # 0 THEN curOrder
    ELSE IF index > Len(bTitleLevels) THEN 1
    ELSE IF curALevel > bTitleLevels[index] THEN 1
    ELSE IF curALevel < bTitleLevels[index] THEN -1
    ELSE 0

RECURSIVE CompareReduce(_, _, _, _)
CompareReduce(aTitleLevels, bTitleLevels, index, curOrder) ==
    IF index > Len(aTitleLevels) THEN curOrder
    ELSE CompareReduce(aTitleLevels, bTitleLevels, index + 1,
            CompareStep(curOrder, aTitleLevels[index], index, bTitleLevels))

_compareArchitectureNotes(a, b) ==
    CompareReduce(TitleLevels(a.num), TitleLevels(b.num), 1, 0)

(***************************************************************************)
(* Array.prototype.sort, as the engines that run the package implement it  *)
(* (package.json asks for node >= 8.12.0).  With a comparator that is not  *)
(* consistent the language leaves the order to the implementation:         *)
(*   "v8_insertion"  V8 before 7.0 (node 8, 10), arrays of at most 10      *)
(*   "v8_timsort"    V8 from 7.0 on (node 11 and later), arrays below 64   *)
(***************************************************************************)
Engines == {"v8_insertion", "v8_timsort"}

RECURSIVE InsertionShift(_, _, _)
InsertionShift(a, j, element) ==
    IF j >= 1 /\ _compareArchitectureNotes(a[j], element) > 0
    THEN InsertionShift([a EXCEPT ![j + 1] = a[j]], j - 1, element)
    ELSE [a EXCEPT ![j + 1] = element]

RECURSIVE InsertionSortFrom(_, _)
InsertionSortFrom(a, i) ==
    IF i > Len(a) THEN a
    ELSE InsertionSortFrom(InsertionShift(a, i - 1, a[i]), i + 1)

InsertionSort(a) == InsertionSortFrom(a, 2)

Reverse(a) == [i \in 1..Len(a) |-> a[Len(a) + 1 - i]]

RECURSIVE CountRun(_, _, _, _)
CountRun(a, idx, isDescending, runLength) ==
    IF idx > Len(a) THEN runLength
    ELSE LET order == _compareArchitectureNotes(a[idx], a[idx - 1])
         IN  IF (isDescending /\ order >= 0) \/ (~isDescending /\ order < 0)
             THEN runLength
             ELSE CountRun(a, idx + 1, isDescending, runLength + 1)

\* the first run of a (Len(a) >= 2), reversed in place when it descends
CountAndMakeRun(a) ==
    LET isDescending == _compareArchitectureNotes(a[2], a[1]) < 0
        runLength == CountRun(a, 3, isDescending, 2)
    IN  [runLength |-> runLength,
         array |-> IF isDescending
                   THEN Reverse(SubSeq(a, 1, runLength)) \o SubSeq(a, runLength + 1, Len(a))
                   ELSE a]

RECURSIVE BinarySearch(_, _, _, _)
BinarySearch(a, pivot, left, right) ==
    IF left < right
    THEN LET mid == left + ((right - left) \div 2)
         IN  IF _compareArchitectureNotes(pivot, a[mid]) < 0
             THEN BinarySearch(a, pivot, left, mid)
             ELSE BinarySearch(a, pivot, mid + 1, right)
    ELSE left

RECURSIVE BinaryInsertionSort(_, _)
BinaryInsertionSort(a, start) ==
    IF start > Len(a) THEN a
    ELSE LET pivot == a[start]
             left == BinarySearch(a, pivot, 1, start)
         IN  BinaryInsertionSort(
                 SubSeq(a, 1, left - 1) \o <<pivot>> \o SubSeq(a, left, start - 1)
                     \o SubSeq(a, start + 1, Len(a)),
                 start + 1)

\* below 64 elements the minimal run is the whole array: one run, then
\* binary insertion of the rest
TimSort(a) ==
    LET run == CountAndMakeRun(a)
    IN  BinaryInsertionSort(run.array, run.runLength + 1)

\* architectureNotes.sort(_compareArchitectureNotes)
SortNotesWith(eng, a) ==
    IF Len(a) < 2 THEN a
    ELSE IF eng = "v8_insertion" THEN InsertionSort(a)
    ELSE TimSort(a)

(***************************************************************************)
(* ARCHITECTURE_NOTE_REGEXP and the visitComment callback.  The pattern:   *)
(* start of text, optional spaces, the marker literal, one to eight groups *)
(* of digits joined by single dots, a colon, one or more spaces, then the  *)
(* longest run of characters of the class "not CR, not LF, not dollar".    *)
(***************************************************************************)
MarkerLiteral == "Architecture Note #"

MaxLevels == 8

RECURSIVE SkipSpaces(_, _)
SkipSpaces(s, i) ==
    IF i <= Len(s) /\ IsSpace(CharAt(s, i)) THEN SkipSpaces(s, i + 1) ELSE i

RECURSIVE SkipNumChars(_, _)
SkipNumChars(s, i) ==
    IF i <= Len(s) /\ (IsDigit(CharAt(s, i)) \/ CharAt(s, i) = ".")
    THEN SkipNumChars(s, i + 1) ELSE i

\* the class [^\r\n$]: inside brackets the dollar sign is a literal
TitleChar(c) == c \notin {"\r", "\n", "$"}

RECURSIVE SkipTitleChars(_, _)
SkipTitleChars(s, i) ==
    IF i <= Len(s) /\ TitleChar(CharAt(s, i)) THEN SkipTitleChars(s, i + 1) ELSE i

\* the id group on a run of digits and dots: one to eight groups of
\* digits, a dot only between two digits
WellFormedNum(num) ==
    LET parts == Split(num, ".")
    IN  /\ num # ""
        /\ Len(parts) \in 1..MaxLevels
        /\ \A i \in 1..Len(parts) : parts[i] # ""

NoMatch == [matched |-> FALSE]

\* ARCHITECTURE_NOTE_REGEXP.exec(comment): every quantifier is greedy and
\* followed by something it cannot match, so the match is the maximal one
ArchitectureNoteExec(comment) ==
    LET iMarker == SkipSpaces(comment, 1)
        iNum == iMarker + Len(MarkerLiteral)
        iColon == SkipNumChars(comment, iNum)
        iSpace == iColon + 1
        iTitle == SkipSpaces(comment, iSpace)
        iEnd == SkipTitleChars(comment, iTitle)
    IN  IF /\ StartsWithAt(comment, iMarker, MarkerLiteral)
           /\ WellFormedNum(SubSeq(comment, iNum, iColon - 1))
           /\ iColon <= Len(comment)
           /\ CharAt(comment, iColon) = ":"
           /\ iTitle > iSpace
        THEN [matched |-> TRUE,
              whole |-> SubSeq(comment, 1, iEnd - 1),
              num |-> SubSeq(comment, iNum, iColon - 1),
              title |-> SubSeq(comment, iTitle, iEnd - 1)]
        ELSE NoMatch

\* what visitComment pushes for one comment node: <<>> or one note
VisitComment(comment, filePath) ==
    LET matches == ArchitectureNoteExec(comment.value)
    IN  IF matches.matched
        THEN << [num |-> matches.num,
                 title |-> Trim(matches.title),
                 content |-> Trim(SubSeq(comment.value, Len(matches.whole) + 1,
                                         Len(comment.value))),
                 filePath |-> filePath,
                 loc |-> comment.loc] >>
        ELSE <<>>

(***************************************************************************)
(* Errors.  YError.wrap(err, code, param) makes an error of that code,     *)
(* with the parameter, that remembers the errors it wraps.                 *)
(***************************************************************************)
NativeError(name) == [code |-> name, params |-> <<>>, wrappedErrors |-> <<>>]

NoError == NativeError("")

Wrap(err, errorCode, param) ==
    [code |-> errorCode,
     params |-> <<param>>,
     wrappedErrors |-> Append(err.wrappedErrors, err.code)]

\* the value of the identifier "path" at module level: require('path')
PathModule == "[object path]"

Pending == [state |-> "pending", value |-> <<>>, reason |-> NoError]

Fulfilled(v) == [state |-> "fulfilled", value |-> v, reason |-> NoError]

Rejected(err) == [state |-> "rejected", value |-> <<>>, reason |-> err]

(***************************************************************************)
(* _extractArchitectureNotes: the promise chain of one file.               *)
(***************************************************************************)
\* _stripShebang: a content SHEBANG_REGEXP matches is commented out
StripShebang(content) ==
    IF content.shebang THEN [content EXCEPT !.commented = TRUE] ELSE content

\* recast.parse succeeds on well formed text whose shebang, if any, is commented
ParseSucceeds(content) ==
    content.wellFormed /\ (content.shebang => content.commented)

RECURSIVE VisitFrom(_, _, _, _)
VisitFrom(comments, filePath, i, architectureNotes) ==
    IF i > Len(comments) THEN architectureNotes
    ELSE VisitFrom(comments, filePath, i + 1,
            architectureNotes \o VisitComment(comments[i], filePath))

\* types.visit(ast, {visitComment}): every comment node, in source order
VisitAst(comments, filePath) == VisitFrom(comments, filePath, 1, <<>>)

\* the first catch: a rejected read is wrapped with the file path
CatchReadFailure(err, filePath) == Wrap(err, "E_FILE_FAILURE", filePath)

\* the last catch: it ends the chain, so it sees the parse errors and the
\* error the first catch threw; "path" there is the module, not filePath
CatchParseFailure(err, filePath) == Wrap(err, "E_FILE_PARSE_FAILURE", PathModule)

\* the promise _extractArchitectureNotes returns, once settled
ExtractArchitectureNotes(content, filePath) ==
    IF ~content.readable
    THEN Rejected(CatchParseFailure(
             CatchReadFailure(NativeError("ENOENT"), filePath), filePath))
    ELSE LET stripped == StripShebang(content)
         IN  IF ParseSucceeds(stripped)
             THEN Fulfilled(VisitAst(stripped.comments, filePath))
             ELSE Rejected(CatchParseFailure(NativeError("SyntaxError"), filePath))

(***************************************************************************)
(* Rendering: the reduce and the last then of jsArch.                      *)
(***************************************************************************)
TITLE_LEVEL == "#"

BASE == "."

\* the EOL service
EOL == "\n"

\* an option the caller left out
Undefined == "<undefined>"

\* a destructuring default applies to undefined only
OrDefault(v, default) == IF v = Undefined THEN default ELSE v

\* eol || EOL: undefined and the empty string are falsy
OrElse(v, other) == IF v = Undefined \/ v = "" THEN other ELSE v

\* path.relative(from, to) for a file below the directory "from"
PathRelative(from, to) ==
    IF StartsWith(to, from \o "/") THEN SubSeq(to, Len(from) + 2, Len(to)) ELSE to

RECURSIVE Hashes(_)
Hashes(n) == IF n = 0 THEN "" ELSE "#" \o Hashes(n - 1)

\* a heading one level too shallow
SectionHeadingShallow(titleLevel, architectureNote) ==
    titleLevel \o Hashes(Len(Split(architectureNote.num, ".")) - 1)
        \o " " \o architectureNote.title

\* titleLevel + num.split('.').map(() => '#').join('') + ' ' + title
SectionHeading(titleLevel, architectureNote) ==
    titleLevel \o Hashes(Len(Split(architectureNote.num, ".")))
        \o " " \o architectureNote.title

ContextLink(base, cwd, architectureNote) ==
    "[See in context](" \o base \o "/"
        \o PathRelative(cwd, architectureNote.filePath)
        \o "#L" \o NatToStr(architectureNote.loc.start.line)
        \o "-L" \o NatToStr(architectureNote.loc.end.line) \o ")"

\* one step of the reduce
AppendSection(content, architectureNote, eol, titleLevel, base, cwd) ==
    content \o eol \o eol
        \o SectionHeading(titleLevel, architectureNote) \o eol \o eol
        \o architectureNote.content \o eol \o eol
        \o ContextLink(base, cwd, architectureNote) \o eol \o eol

RECURSIVE ReduceSections(_, _, _, _, _, _, _)
ReduceSections(notes, i, content, eol, titleLevel, base, cwd) ==
    IF i > Len(notes) THEN content
    ELSE ReduceSections(notes, i + 1,
            AppendSection(content, notes[i], eol, titleLevel, base, cwd),
            eol, titleLevel, base, cwd)

\* the last then: an empty content stays empty
Document(content, titleLevel, eol) ==
    IF content # "" THEN titleLevel \o " Architecture Notes" \o eol \o eol \o content
    ELSE content

\* the thens of jsArch after the extractions: linearize, sort, reduce, title
RenderNotes(eng, opts, bulks) ==
    LET eol == OrElse(opts.eol, EOL)
        titleLevel == OrDefault(opts.titleLevel, TITLE_LEVEL)
        base == OrDefault(opts.base, BASE)
        sorted == SortNotesWith(eng, _linearize(bulks))
    IN  Document(ReduceSections(sorted, 1, "", eol, titleLevel, base, opts.cwd),
                 titleLevel, eol)

(***************************************************************************)
(* The environment the pipeline runs in: what glob, fs and the parser      *)
(* answer.  It is drawn once, before the call, and never changes.          *)
(***************************************************************************)
Cwd == "/r"

PatternNames == <<"src/?.js", "bin/?.js", "lib/?.js", "test/?.js">>

Patterns == SubSeq(PatternNames, 1, NumPatterns)

FilePaths == {"/r/a.js", "/r/b.js"}

\* the sequences over S without a repetition: glob lists a file once
DistinctSeqs(S) ==
    UNION {{f \in [1..n -> S] : \A i, j \in 1..n : i # j => f[i] # f[j]} :
           n \in 0..Cardinality(S)}

GlobAnswers ==
    {[ok |-> FALSE, files |-> <<>>]}
        \cup {[ok |-> TRUE, files |-> fs] : fs \in DistinctSeqs(FilePaths)}

Comment(value, startLine, endLine) ==
    [value |-> value,
     loc |-> [start |-> [line |-> startLine], end |-> [line |-> endLine]]]

SourceText(shebang, wellFormed, comments) ==
    [readable |-> TRUE, shebang |-> shebang, commented |-> FALSE,
     wellFormed |-> wellFormed, comments |-> comments]

Unreadable ==
    [readable |-> FALSE, shebang |-> FALSE, commented |-> FALSE,
     wellFormed |-> TRUE, comments |-> <<>>]

Malformed == SourceText(FALSE, FALSE, <<>>)

PlainFile == SourceText(FALSE, TRUE, <<Comment(" just a note", 1, 1)>>)

MainFile ==
    SourceText(FALSE, TRUE,
        <<Comment(" Architecture Note #1: Main\n\nm\n", 1, 4),
          Comment(" plain", 6, 6),
          Comment(" Architecture Note #2: Two\n\nt", 10, 12)>>)

SubFile ==
    SourceText(TRUE, TRUE,
        <<Comment(" Architecture Note #1.1: Sub\n\ns", 3, 5),
          Comment(" Architecture Note #1: Dup\n\nd", 7, 9)>>)

Contents == {Unreadable, Malformed, PlainFile, MainFile, SubFile}

OptionChoices ==
    {[cwd |-> Cwd, patterns |-> Patterns, eol |-> Undefined,
      titleLevel |-> t, base |-> Undefined] : t \in {Undefined, "##"}}

\* the notes a file holds, whatever the run does
NotesIn(content, filePath) ==
    IF content.readable /\ content.wellFormed
    THEN VisitAst(content.comments, filePath) ELSE <<>>

\* the insertion sort is what the older engine runs on at most ten elements
WithinInsertionSort(eng, answers, contents) ==
    eng = "v8_insertion" =>
        Len(_linearize([i \in 1..Len(answers) |->
                _linearize([k \in 1..Len(answers[i].files) |->
                    NotesIn(contents[answers[i].files[k]], answers[i].files[k])])]))
            <= 10

(***************************************************************************)
(* Initial states.                                                         *)
(***************************************************************************)
NoRun == [state |-> "none", value |-> "", reason |-> NoError]

PipeIdle ==
    /\ pc = "idle"
    /\ globState = [i \in 1..NumPatterns |-> "idle"]
    /\ files = <<>>
    /\ extract = <<>>
    /\ reads = <<>>
    /\ gathered = <<>>
    /\ outOfOrder = FALSE
    /\ result = NoRun

CompareIdle == cmpA = "" /\ cmpB = "" /\ cmpC = "" /\ cmpRes = [done |-> FALSE]

SortIdle == sortIn = <<>> /\ sortOut = [done |-> FALSE, notes |-> <<>>]

ParseIdle == commentText = "" /\ parsed = [done |-> FALSE, notes |-> <<>>]

Init ==
    /\ engine \in Engines
    /\ options \in OptionChoices
    /\ globOutcome \in [1..NumPatterns -> GlobAnswers]
    /\ fileContent \in [FilePaths -> Contents]
    /\ WithinInsertionSort(engine, globOutcome, fileContent)
    /\ PipeIdle
    /\ CompareIdle /\ SortIdle /\ ParseIdle

(***************************************************************************)
(* The pipeline.                                                           *)
(***************************************************************************)
\* a Promise.all that waits for every promise to settle, failed or not
AllSettled(states) == \A i \in DOMAIN states : states[i] # "pending"

\* Promise.all fulfils once every promise is fulfilled
AllResolved(states) == \A i \in DOMAIN states : states[i] = "ok"

\* the array Promise.all gives: the values in the order of the promises
GlobValues(states) ==
    [i \in 1..Len(states) |->
        IF states[i] = "ok" THEN globOutcome[i].files ELSE <<>>]

Unset == [set |-> FALSE, value |-> <<>>]

\* a values array filled in the order the promises settle in
ValueIndexAtCompletion(k, values) ==
    1 + Cardinality({j \in DOMAIN values : values[j].set})

\* Promise.all stores a value at the index of its promise
ValueIndex(k, values) == k

\* the files the extractions are started on: every path of every pattern
ResolvedFiles(states) == _linearize(GlobValues(states))

\* jsArch(services, options): _computePatterns starts one glob per pattern
JsArch ==
    /\ pc = "idle"
    /\ pc' = "globbing"
    /\ globState' = [i \in 1..NumPatterns |-> "pending"]
    /\ result' = Pending
    /\ UNCHANGED <<options, globOutcome, fileContent, files, extract, reads,
                   gathered, outOfOrder, engine, cmpVars, sortVars, parseVars>>

\* the glob of pattern i settles.  A failure rejects the run at once; the
\* last success starts one extraction, hence one read, per resolved file
GlobSettle(i) ==
    /\ pc # "idle"
    /\ globState[i] = "pending"
    /\ LET states == [globState EXCEPT ![i] =
                         IF globOutcome[i].ok THEN "ok" ELSE "failed"]
           fs == ResolvedFiles(states)
       IN  /\ globState' = states
           /\ IF ~globOutcome[i].ok
              THEN /\ IF result.state = "pending"
                      THEN /\ result' = Rejected(Wrap(NativeError("EGLOB"),
                                            "E_PATTERN_FAILURE", options.patterns[i]))
                           /\ pc' = "settled"
                      ELSE UNCHANGED <<result, pc>>
                   /\ UNCHANGED <<files, extract, reads, gathered>>
              ELSE IF AllResolved(states)
              THEN /\ files' = fs
                   /\ reads' = reads \o fs
                   /\ extract' = [k \in 1..Len(fs) |-> Pending]
                   /\ gathered' = [k \in 1..Len(fs) |-> Unset]
                   /\ IF fs = <<>> /\ result.state = "pending"
                      THEN /\ result' = Fulfilled(RenderNotes(engine, options, <<>>))
                           /\ pc' = "settled"
                      ELSE /\ pc' = IF result.state = "pending" THEN "extracting" ELSE pc
                           /\ UNCHANGED result
              ELSE UNCHANGED <<files, extract, reads, gathered, result, pc>>
    /\ UNCHANGED <<options, globOutcome, fileContent, outOfOrder, engine,
                   cmpVars, sortVars, parseVars>>

\* the extraction of files[k] settles: the whole chain from the read on.
\* The first rejection rejects the run; the last fulfilment renders it
ExtractSettle(k) ==
    /\ k \in DOMAIN extract
    /\ extract[k].state = "pending"
    /\ LET outcome == ExtractArchitectureNotes(fileContent[files[k]], files[k])
           ex == [extract EXCEPT ![k] = outcome]
           values == IF outcome.state = "fulfilled"
                     THEN [gathered EXCEPT ![ValueIndex(k, gathered)] =
                              [set |-> TRUE, value |-> outcome.value]]
                     ELSE gathered
       IN  /\ extract' = ex
           /\ gathered' = values
           /\ outOfOrder' = (outOfOrder \/ \E j \in 1..(k - 1) : extract[j].state = "pending")
           /\ IF result.state # "pending"
              THEN UNCHANGED <<result, pc>>
              ELSE IF outcome.state = "rejected"
              THEN result' = Rejected(outcome.reason) /\ pc' = "settled"
              ELSE IF \A j \in DOMAIN ex : ex[j].state = "fulfilled"
              THEN /\ result' = Fulfilled(RenderNotes(engine, options,
                                    [j \in 1..Len(values) |-> values[j].value]))
                   /\ pc' = "settled"
              ELSE UNCHANGED <<result, pc>>
    /\ UNCHANGED <<options, globOutcome, fileContent, globState, files, reads,
                   engine, cmpVars, sortVars, parseVars>>

Next ==
    \/ JsArch
    \/ \E i \in 1..NumPatterns : GlobSettle(i)
    \/ \E k \in 1..(NumPatterns * Cardinality(FilePaths)) : ExtractSettle(k)

Spec == Init /\ [][Next]_vars

(***************************************************************************)
(* SpecCompare: the comparator on three drawn ids.                         *)
(***************************************************************************)
ComponentValues == {0, 1, 2, 10}

RECURSIVE JoinNum(_, _)
JoinNum(levels, i) ==
    IF i > Len(levels) THEN ""
    ELSE (IF i > 1 THEN "." ELSE "") \o NatToStr(levels[i]) \o JoinNum(levels, i + 1)

\* the ids of one to MaxDepth components, as the marker writes them
DrawnNums ==
    {JoinNum(levels, 1) :
        levels \in UNION {[1..n -> ComponentValues] : n \in 1..MaxDepth}}

NoteOf(num) ==
    [num |-> num, title |-> "T" \o num, content |-> "", filePath |-> "/r/a.js",
     loc |-> [start |-> [line |-> 1], end |-> [line |-> 1]]]

InitCompare ==
    /\ cmpA \in DrawnNums /\ cmpB \in DrawnNums /\ cmpC \in DrawnNums
    /\ cmpRes = [done |-> FALSE]
    /\ engine = "v8_timsort"
    /\ options \in {o \in OptionChoices : o.titleLevel = Undefined}
    /\ globOutcome = [i \in 1..NumPatterns |-> [ok |-> TRUE, files |-> <<>>]]
    /\ fileContent = [f \in FilePaths |-> PlainFile]
    /\ PipeIdle /\ SortIdle /\ ParseIdle

CompareNotes ==
    /\ ~cmpRes.done
    /\ cmpRes' = [done |-> TRUE,
                  ab |-> _compareArchitectureNotes(NoteOf(cmpA), NoteOf(cmpB)),
                  ba |-> _compareArchitectureNotes(NoteOf(cmpB), NoteOf(cmpA)),
                  bc |-> _compareArchitectureNotes(NoteOf(cmpB), NoteOf(cmpC)),
                  ac |-> _compareArchitectureNotes(NoteOf(cmpA), NoteOf(cmpC))]
    /\ UNCHANGED <<cmpA, cmpB, cmpC, pipeVars, engine, sortVars, parseVars>>

NextCompare == CompareNotes

SpecCompare == InitCompare /\ [][NextCompare]_vars

(***************************************************************************)
(* SpecSort: the sort of jsArch on a drawn sequence of notes with distinct *)
(* ids.                                                                    *)
(***************************************************************************)
SortPool == {"1", "1.1", "1.2", "2", "10"}

DrawnSortInputs ==
    UNION {{f \in [1..n -> SortPool] : \A i, j \in 1..n : i # j => f[i] # f[j]} :
           n \in 0..MaxSort}

InitSort ==
    /\ engine \in Engines
    /\ \E nums \in DrawnSortInputs :
           sortIn = [i \in 1..Len(nums) |-> NoteOf(nums[i])]
    /\ sortOut = [done |-> FALSE, notes |-> <<>>]
    /\ options \in {o \in OptionChoices : o.titleLevel = Undefined}
    /\ globOutcome = [i \in 1..NumPatterns |-> [ok |-> TRUE, files |-> <<>>]]
    /\ fileContent = [f \in FilePaths |-> PlainFile]
    /\ PipeIdle /\ CompareIdle /\ ParseIdle

SortNotes ==
    /\ ~sortOut.done
    /\ sortOut' = [done |-> TRUE, notes |-> SortNotesWith(engine, sortIn)]
    /\ UNCHANGED <<sortIn, pipeVars, engine, cmpVars, parseVars>>

NextSort == SortNotes

SpecSort == InitSort /\ [][NextSort]_vars

(***************************************************************************)
(* SpecParse: visitComment on a drawn comment text: a marker line start    *)
(* followed by up to MaxTail drawn characters.                             *)
(***************************************************************************)
TailAlphabet == {"a", " ", "\n", "$"}

RECURSIVE Tails(_)
Tails(n) ==
    IF n = 0 THEN {""}
    ELSE LET shorter == Tails(n - 1)
         IN  shorter \cup {t \o c : t \in shorter, c \in TailAlphabet}

DrawnComments ==
    {lead \o MarkerLiteral \o num \o sep \o tail :
        lead \in {"", " "}, num \in {"1", "1.2"}, sep \in {":", ""},
        tail \in Tails(MaxTail)}

InitParse ==
    /\ commentText \in DrawnComments
    /\ parsed = [done |-> FALSE, notes |-> <<>>]
    /\ engine = "v8_timsort"
    /\ options \in {o \in OptionChoices : o.titleLevel = Undefined}
    /\ globOutcome = [i \in 1..NumPatterns |-> [ok |-> TRUE, files |-> <<>>]]
    /\ fileContent = [f \in FilePaths |-> PlainFile]
    /\ PipeIdle /\ CompareIdle /\ SortIdle

ParseComment ==
    /\ ~parsed.done
    /\ parsed' = [done |-> TRUE,
                  notes |-> VisitComment(Comment(commentText, 1, 1), "/r/a.js")]
    /\ UNCHANGED <<commentText, pipeVars, engine, cmpVars, sortVars>>

NextParse == ParseComment

SpecParse == InitParse /\ [][NextParse]_vars

(***************************************************************************)
(* The claims.                                                             *)
(***************************************************************************)
Count(seq, x) == Cardinality({i \in DOMAIN seq : seq[i] = x})

Settled == result.state \in {"fulfilled", "rejected"}

Extractable(content) == content.readable /\ ParseSucceeds(StripShebang(content))

FailedPatterns == {i \in 1..NumPatterns : globState[i] = "failed"}

\* C1: when the read of exactly one resolved path P fails and every other
\* resolved file reads and parses, the run is rejected with an error whose
\* code is E_FILE_FAILURE and whose parameter is P, and returns no markdown.
C1_ReadFailureReportsFileFailure ==
    \A P \in FilePaths :
        ( /\ Settled
          /\ P \in Range(files)
          /\ Range(files) # {P}
          /\ ~fileContent[P].readable
          /\ \A f \in Range(files) \ {P} : Extractable(fileContent[f]) )
        => /\ result.state = "rejected"
           /\ result.value = <<>>
           /\ result.reason.code = "E_FILE_FAILURE"
           /\ result.reason.params = <<P>>

\* C2: when the read of a file succeeds and its parse fails, the extraction
\* of that file is rejected with an error whose code is E_FILE_PARSE_FAILURE
\* and whose parameter is the path of that file.
C2_ParseFailureCarriesFilePath ==
    \A k \in DOMAIN extract :
        ( /\ extract[k].state # "pending"
          /\ fileContent[files[k]].readable
          /\ ~ParseSucceeds(StripShebang(fileContent[files[k]])) )
        => /\ extract[k].state = "rejected"
           /\ extract[k].reason.code = "E_FILE_PARSE_FAILURE"
           /\ extract[k].reason.params = <<files[k]>>

\* C3: once the resolution of a pattern has failed, the run is rejected with
\* E_PATTERN_FAILURE carrying a pattern that failed (that pattern, when it is
\* the only one), no file read was started and no markdown is produced; and
\* whenever a read has been started, every pattern has resolved.
C3_PatternFailureAbortsBeforeAnyRead ==
    /\ FailedPatterns # {} =>
           /\ result.state = "rejected"
           /\ result.value = <<>>
           /\ result.reason.code = "E_PATTERN_FAILURE"
           /\ \E i \in FailedPatterns : result.reason.params = <<Patterns[i]>>
           /\ reads = <<>>
           /\ extract = <<>>
    /\ reads # <<>> => \A i \in 1..NumPatterns : globState[i] = "ok"

\* a pattern failed while another one resolved to files
C3_Witness ==
    \E i, j \in 1..NumPatterns :
        /\ globState[i] = "failed"
        /\ globState[j] = "ok"
        /\ globOutcome[j].files # <<>>
        /\ result.state = "rejected"

\* the document the patterns, the file contents and the options determine
ExpectedDocument ==
    LET fs == _linearize([i \in 1..NumPatterns |-> globOutcome[i].files])
    IN  RenderNotes(engine, options,
            [k \in 1..Len(fs) |-> NotesIn(fileContent[fs[k]], fs[k])])

\* C4: the markdown a run returns is determined by the patterns, the file
\* contents and the options alone: no order of completion of the globs and
\* of the extractions changes it, the order of equal ids included.
C4_OutputIndependentOfCompletionOrder ==
    result.state = "fulfilled" => result.value = ExpectedDocument

\* two files holding notes of equal id were extracted, a later one first
C4_Witness ==
    /\ result.state = "fulfilled"
    /\ outOfOrder
    /\ \E j, k \in DOMAIN files :
           fileContent[files[j]] = MainFile /\ fileContent[files[k]] = SubFile

IsStrictPrefix(a, b) ==
    Len(a) < Len(b) /\ \A i \in 1..Len(a) : a[i] = b[i]

\* C5: when a's id is a strict prefix of b's id, compare(a, b) is -1 and
\* compare(b, a) is +1.
C5_AncestorComparesLess ==
    (cmpRes.done /\ IsStrictPrefix(TitleLevels(cmpA), TitleLevels(cmpB)))
        => cmpRes.ab = -1 /\ cmpRes.ba = 1

\* the hierarchical order: an ancestor before its descendants, components
\* compared as numbers
HierLess(a, b) ==
    \/ IsStrictPrefix(a, b)
    \/ \E k \in 1..Len(a) :
           /\ k <= Len(b)
           /\ a[k] < b[k]
           /\ \A i \in 1..(k - 1) : a[i] = b[i]

\* C6: whatever the input order of notes with distinct ids, the sort yields
\* the hierarchical numeric order: 1, 1.1, 1.2, 2, 10 for these five ids.
C6_SortYieldsHierarchicalOrder ==
    sortOut.done =>
        /\ Len(sortOut.notes) = Len(sortIn)
        /\ \A i, j \in 1..Len(sortOut.notes) :
               i < j => HierLess(TitleLevels(sortOut.notes[i].num),
                                 TitleLevels(sortOut.notes[j].num))
        /\ Len(sortIn) = 5 =>
               [i \in 1..5 |-> sortOut.notes[i].num] = <<"1", "1.1", "1.2", "2", "10">>

\* C7: the comparator is a total order: its result is -1, 0 or 1, it is
\* antisymmetric (compare(a, b) = -compare(b, a)) and it is transitive.
C7_ComparatorIsTotalOrder ==
    cmpRes.done =>
        /\ cmpRes.ab \in {-1, 0, 1}
        /\ cmpRes.ab = -cmpRes.ba
        /\ (cmpRes.ab <= 0 /\ cmpRes.bc <= 0) => cmpRes.ac <= 0

RECURSIVE FirstIndex(_, _, _)
FirstIndex(s, i, chars) ==
    IF i > Len(s) \/ CharAt(s, i) \in chars THEN i ELSE FirstIndex(s, i + 1, chars)

\* the marker line is the text up to the first carriage return or newline
MarkerLineEnd(text) == FirstIndex(text, 1, {"\r", "\n"})

ClaimedTitle(text) ==
    Trim(SubSeq(text, FirstIndex(text, 1, {":"}) + 1, MarkerLineEnd(text) - 1))

ClaimedBody(text) == Trim(SubSeq(text, MarkerLineEnd(text), Len(text)))

\* C8: for a comment that matches the marker, the title is the trimmed text
\* between the colon and the end of the marker line, whatever characters it
\* holds, and the body is the trimmed text after the marker line.
C8_TitleIsRestOfMarkerLine ==
    (parsed.done /\ parsed.notes # <<>>) =>
        /\ parsed.notes[1].title = ClaimedTitle(commentText)
        /\ parsed.notes[1].content = ClaimedBody(commentText)

RECURSIVE LeadingHashes(_)
LeadingHashes(line) ==
    IF line # "" /\ Head(line) = "#" THEN 1 + LeadingHashes(Tail(line)) ELSE 0

HeadingLines(document) ==
    SelectSeq(Split(document, "\n"), LAMBDA line : LeadingHashes(line) > 0)

Components(num) == 1 + Cardinality({i \in 1..Len(num) : CharAt(num, i) = "."})

CollectedNotes == _linearize([k \in 1..Len(extract) |-> extract[k].value])

\* C9: the document is empty exactly when no note was collected; otherwise
\* it holds one top-level heading, first, then one section heading per
\* collected note, in sorted order, each as deep as titleLevel plus the
\* number of components of the note's id.
C9_DocumentShape ==
    result.state = "fulfilled" =>
        LET titleLevel == OrDefault(options.titleLevel, TITLE_LEVEL)
            sorted == SortNotesWith(engine, CollectedNotes)
            headings == HeadingLines(result.value)
        IN  /\ (result.value = "") <=> (CollectedNotes = <<>>)
            /\ CollectedNotes # <<>> =>
                   /\ Len(headings) = 1 + Len(CollectedNotes)
                   /\ headings[1] = titleLevel \o " Architecture Notes"
                   /\ StartsWith(result.value, headings[1] \o "\n")
                   /\ \A i \in 1..Len(sorted) :
                          /\ LeadingHashes(headings[i + 1])
                                 = Len(titleLevel) + Components(sorted[i].num)
                          /\ SubSeq(headings[i + 1],
                                    LeadingHashes(headings[i + 1]) + 1,
                                    Len(headings[i + 1]))
                                 = " " \o sorted[i].title

\* a document with notes of one and of two components
C9_Witness ==
    /\ result.state = "fulfilled"
    /\ \E i, j \in 1..Len(CollectedNotes) :
           /\ Components(CollectedNotes[i].num) = 1
           /\ Components(CollectedNotes[j].num) = 2

\* the patterns whose answer lists the file
PatternsListing(f) == {i \in 1..NumPatterns : f \in Range(globOutcome[i].files)}

\* the sections of the document that link to the file
SectionsOf(document, f) ==
    Len(SelectSeq(Split(document, "\n"),
            LAMBDA line : StartsWith(line,
                "[See in context](./" \o PathRelative(Cwd, f) \o "#")))

\* C10, as stated: in a successful run every distinct resolved path is read
\* exactly once, also when several patterns resolve to it, and each of its
\* notes appears exactly once in the document.
C10_EachDistinctPathReadOnce ==
    result.state = "fulfilled" =>
        \A f \in FilePaths :
            PatternsListing(f) # {} =>
                /\ Count(reads, f) = 1
                /\ SectionsOf(result.value, f) = Len(NotesIn(fileContent[f], f))

\* C10, amended: in a successful run a path is read and extracted once for
\* each pattern that resolved to it, and each of its notes appears in the
\* document once per such pattern.
C10_EachResolvedOccurrenceReadOnce ==
    result.state = "fulfilled" =>
        \A f \in FilePaths :
            /\ Count(reads, f) = Cardinality(PatternsListing(f))
            /\ SectionsOf(result.value, f)
                   = Cardinality(PatternsListing(f)) * Len(NotesIn(fileContent[f], f))

\* a successful run in which two patterns resolved to a file that holds notes
C10_Witness ==
    /\ result.state = "fulfilled"
    /\ \E f \in FilePaths :
           /\ Cardinality(PatternsListing(f)) >= 2
           /\ NotesIn(fileContent[f], f) # <<>>

====
